---- MODULE Spec2Model ----
(***************************************************************************)
(* Model of src/main.py: the Grok image generation client.                 *)
(*                                                                         *)
(* GrokImageGenerator.generate_images is the pipeline; interactive_mode,   *)
(* command_line_mode, api_generate_images (/generate) and                  *)
(* api_server_mode.generate_image (/generate-image) are the front ends     *)
(* that call it.  Text is modelled as a sequence of one-character strings, *)
(* so that sanitising, trimming, truncating and formatting are computed    *)
(* the way the code computes them.                                         *)
(***************************************************************************)
EXTENDS Integers, Sequences, FiniteSets, TLC

(***************************************************************************)
(* Bounds of the model.                                                    *)
(***************************************************************************)
\* the service returns at most MaxImages descriptors in one response
MaxImages == 2
\* the clock advances at most MaxTicks seconds during a run
MaxTicks == 1
\* the clock second (since midnight) at which a run starts
StartSecond == 59

\* prompt[:50] in _generate_filename
StemLimit == 50
\* the limits of max(1, min(10, count)) in the front ends that clamp
MinCount == 1
MaxCount == 10

Calls == {1, 2}

(***************************************************************************)
(* Text.                                                                   *)
(***************************************************************************)
DigitChars == <<"0", "1", "2", "3", "4", "5", "6", "7", "8", "9">>

\* str.isalnum() on the characters the model uses
IsAlnum(ch) == ch \in {"a", "b", "c"} \/ \E d \in 1..10 : DigitChars[d] = ch

\* str.isspace() on the characters the model uses
IsSpace(ch) == ch = " "

Min(a, b) == IF a <= b THEN a ELSE b
Max(a, b) == IF a >= b THEN a ELSE b

RECURSIVE RStrip(_)
\* str.rstrip(): drop trailing whitespace
RStrip(s) ==
    IF s # <<>> /\ IsSpace(s[Len(s)]) THEN RStrip(SubSeq(s, 1, Len(s) - 1)) ELSE s

RECURSIVE LStrip(_)
\* the leading half of str.strip()
LStrip(s) == IF s # <<>> /\ IsSpace(s[1]) THEN LStrip(Tail(s)) ELSE s

\* str.strip()
Strip(s) == LStrip(RStrip(s))

\* the characters _generate_filename keeps
KeepChar(ch) == IsAlnum(ch) \/ ch \in {" ", "-", "_"}

\* str.replace(' ', '_')
ReplaceSpaces(s) == [i \in 1..Len(s) |-> IF s[i] = " " THEN "_" ELSE s[i]]

\* safe_prompt of _generate_filename: filter, rstrip, replace, truncate
SafePrompt(prompt) ==
    SubSeq(ReplaceSpaces(RStrip(SelectSeq(prompt, KeepChar))), 1,
           Min(StemLimit, Len(ReplaceSpaces(RStrip(SelectSeq(prompt, KeepChar))))))

RECURSIVE Decimal(_)
\* the decimal digits of a natural number
Decimal(n) ==
    IF n < 10 THEN <<DigitChars[n + 1]>>
    ELSE Decimal(n \div 10) \o <<DigitChars[(n % 10) + 1]>>

\* f"{index:02d}": at least two digits, zero padded
Format02d(n) == IF n < 10 THEN <<"0">> \o Decimal(n) ELSE Decimal(n)

\* strftime("%Y%m%d_%H%M%S") of the clock; t counts the seconds of one day
Strftime(t) ==
    <<"2", "0", "2", "4", "0", "1", "0", "1", "_">>
        \o Format02d(t \div 3600) \o Format02d((t \div 60) % 60) \o Format02d(t % 60)

\* self.output_dir / filename
OutputDir == <<"generated_images", "/">>

GenerateFilenameToTheMinute(prompt, index, extension, t) ==
    OutputDir \o SafePrompt(prompt) \o <<"_">> \o Strftime(t - (t % 60))
        \o <<"_">> \o Format02d(index) \o <<".">> \o extension

GenerateFilenameWithoutIndex(prompt, index, extension, t) ==
    OutputDir \o SafePrompt(prompt) \o <<"_">> \o Strftime(t) \o <<".">> \o extension

\* _generate_filename, with t the value datetime.now() has when it runs
GenerateFilename(prompt, index, extension, t) ==
    OutputDir \o SafePrompt(prompt) \o <<"_">> \o Strftime(t)
        \o <<"_">> \o Format02d(index) \o <<".">> \o extension


(***************************************************************************)
(* Values.                                                                 *)
(***************************************************************************)
\* Python's None where the code expects text (a JSON null prompt, a missing key)
NoneValue == <<"<None>">>
\* Python's None where the code expects a short string, or a path
None == "None"
NoPath == <<>>

\* "not prompt" is false exactly for these
Truthy(p) == p # <<>> /\ p # NoneValue

\* prompts a person can type or pass on a command line
TextPrompts == {<<>>, <<" ", "a", "!", " ">>}
\* prompts a JSON body can carry
JsonPrompts == TextPrompts \cup {NoneValue}
\* a prompt of n times "a" and then the character last
LongPrompt(n, last) == [i \in 1..(n + 1) |-> IF i <= n THEN "a" ELSE last]
\* prompts of concurrent requests: some differ only in what the file name drops
ConcPrompts ==
    {<<"a", " ", "b">>, LongPrompt(StemLimit, "b"), LongPrompt(StemLimit, "c")}
\* what a person types when asked how many images
CountTexts == {<<>>, <<"1", "1">>, <<"0">>, <<"-", "1">>, <<"x">>}
\* integer counts a command line or a JSON body can carry
CountInputs == {0, 11}
\* what a person types when asked for the format
TypedFormats == {"url", "b64", "png"}
\* format values a JSON body can carry
FormatInputs == {"url", "b64_json", "png"}
\* the command line's choices=['url', 'b64']
CliFormats == {"url", "b64"}
BodyKeys == {"prompt", "count", "format", "save_images"}

\* what each front end can be given
TypedInputs ==
    [prompts |-> TextPrompts, counts |-> CountTexts, formats |-> TypedFormats,
     flags |-> {TRUE}]
CliInputs ==
    [prompts |-> TextPrompts, counts |-> CountInputs, formats |-> CliFormats,
     flags |-> BOOLEAN]
JsonInputs ==
    [prompts |-> JsonPrompts, counts |-> CountInputs, formats |-> FormatInputs,
     flags |-> BOOLEAN]
\* concurrent requests that ask for two saved images by URL
ConcInputs ==
    [prompts |-> ConcPrompts, counts |-> {2}, formats |-> {"url"}, flags |-> {TRUE}]

\* the items a response of the service can carry: any subset of the fields
Item(r, u, b) == [has_revised_prompt |-> r, url |-> u, b64_json |-> b]
Items ==
    { Item(TRUE, "https://img", None), Item(TRUE, None, "aGk="),
      Item(TRUE, "https://img", "aGk="), Item(TRUE, None, None),
      Item(FALSE, "https://img", None) }
\* the items of a service that answers in the requested format
UrlItems == { Item(TRUE, "https://img", None) }

RECURSIVE SeqsUpTo(_, _)
\* the sequences over S of length at most n
SeqsUpTo(S, n) ==
    IF n = 0 THEN {<<>>}
    ELSE SeqsUpTo(S, n - 1)
            \cup { Append(q, x) : q \in { r \in SeqsUpTo(S, n - 1) : Len(r) = n - 1 }, x \in S }

RECURSIVE ParseDigits(_, _)
ParseDigits(s, acc) ==
    IF s = <<>> THEN acc
    ELSE ParseDigits(Tail(s), 10 * acc + ((CHOOSE d \in 1..10 : DigitChars[d] = s[1]) - 1))

IsDigits(s) == s # <<>> /\ \A i \in 1..Len(s) : \E d \in 1..10 : DigitChars[d] = s[i]

\* int(text): [ok, v]; ok is FALSE where int() raises ValueError
ParseInt(s) ==
    IF IsDigits(s) THEN [ok |-> TRUE, v |-> ParseDigits(s, 0)]
    ELSE IF s # <<>> /\ s[1] = "-" /\ IsDigits(Tail(s))
         THEN [ok |-> TRUE, v |-> 0 - ParseDigits(Tail(s), 0)]
         ELSE [ok |-> FALSE, v |-> 0]

(***************************************************************************)
(* State.                                                                  *)
(***************************************************************************)
VARIABLES
    now,        \* the clock: the second datetime.now() reads
    pc,         \* where each call is: idle, generate, loop, done
    frontend,   \* the front end that handles the call
    given,      \* what the request carried: a prompt, no prompt, no JSON object
    args,       \* the arguments generate_images was called with
    remote,     \* the requests that reached the remote service
    response,   \* response.data of the call
    result,     \* the record the call builds and returns
    status,     \* the HTTP status answered, 0 when none was
    fault,      \* what failed inside generate_images
    saves       \* the saves attempted: path, call, index, second, ok

vars == <<now, pc, frontend, given, args, remote, response, result, status, fault, saves>>

NoArgs == [prompt |-> <<>>, count |-> 0, format_type |-> None, save_images |-> FALSE]

NoResult ==
    [keys |-> {}, success |-> FALSE, error |-> None, original_prompt |-> <<>>,
     count |-> 0, images |-> <<>>, timestamp |-> 0]

Init ==
    /\ now = StartSecond
    /\ pc = [c \in Calls |-> "idle"]
    /\ frontend = [c \in Calls |-> None]
    /\ given = [c \in Calls |-> None]
    /\ args = [c \in Calls |-> NoArgs]
    /\ remote = {}
    /\ response = [c \in Calls |-> <<>>]
    /\ result = [c \in Calls |-> NoResult]
    /\ status = [c \in Calls |-> 0]
    /\ fault = [c \in Calls |-> None]
    /\ saves = {}

\* the clock advances
Tick ==
    /\ now < StartSecond + MaxTicks
    /\ now' = now + 1
    /\ UNCHANGED <<pc, frontend, given, args, remote, response, result, status, fault, saves>>

(***************************************************************************)
(* The front ends.                                                         *)
(***************************************************************************)
HttpFrontends == {"/generate", "/generate-image"}

\* dict.get(key, default) on a JSON object with the given keys
Get(keys, key, value, default) == IF key \in keys THEN value ELSE default

\* the front end calls generator.generate_images(prompt, count, format_type, save_images)
Invoke(c, fe, isGiven, prompt, count, format_type, save_images) ==
    /\ pc' = [pc EXCEPT ![c] = "generate"]
    /\ frontend' = [frontend EXCEPT ![c] = fe]
    /\ given' = [given EXCEPT ![c] = isGiven]
    /\ args' = [args EXCEPT ![c] = [prompt |-> prompt, count |-> count,
                                    format_type |-> format_type,
                                    save_images |-> save_images]]
    /\ UNCHANGED <<now, remote, response, result, status, fault, saves>>

\* the front end answers without calling generate_images
Answer(c, fe, isGiven, code) ==
    /\ pc' = [pc EXCEPT ![c] = "done"]
    /\ frontend' = [frontend EXCEPT ![c] = fe]
    /\ given' = [given EXCEPT ![c] = isGiven]
    /\ status' = [status EXCEPT ![c] = code]
    /\ UNCHANGED <<now, args, remote, response, result, fault, saves>>

\* what the request carried, for a request that is text or a JSON object
HasPrompt(present) == IF present THEN "prompt" ELSE "no prompt"

\* interactive_mode, choice "1"
Interactive(c, inp) ==
    /\ pc[c] = "idle"
    /\ \E typed \in inp.prompts, ct \in inp.counts, f \in inp.formats :
         LET prompt == Strip(typed)
             text == IF ct = <<>> THEN <<"1">> ELSE ct
             count == IF ParseInt(text).ok THEN Max(MinCount, Min(MaxCount, ParseInt(text).v)) ELSE 1
             format_type == IF f = "b64" THEN "b64_json" ELSE "url"
         IN  IF ~Truthy(prompt)
             THEN Answer(c, "interactive", HasPrompt(typed # <<>>), 0)
             ELSE Invoke(c, "interactive", HasPrompt(TRUE), prompt, count, format_type, TRUE)

\* command_line_mode, after argparse has parsed the arguments
CommandLine(c, inp) ==
    /\ pc[c] = "idle"
    /\ \E prompt \in inp.prompts, hasCount \in BOOLEAN, n \in inp.counts,
          f \in inp.formats, no_save \in inp.flags :
         LET count == IF hasCount THEN n ELSE 1
             format_type == IF f = "b64" THEN "b64_json" ELSE "url"
         IN  Invoke(c, "cli", HasPrompt(TRUE), prompt, count, format_type, ~no_save)

\* api_generate_images, the /generate route
ApiGenerate(c, inp) ==
    /\ pc[c] = "idle"
    /\ \/ \E keys \in SUBSET BodyKeys, p \in inp.prompts, n \in inp.counts,
            f \in inp.formats, s \in inp.flags :
            LET prompt == Get(keys, "prompt", p, NoneValue)
                count == Get(keys, "count", n, 1)
                format_type == Get(keys, "format", f, "url")
                save_images == Get(keys, "save_images", s, TRUE)
            IN  IF ~Truthy(prompt)
                THEN Answer(c, "/generate", HasPrompt("prompt" \in keys), 400)
                ELSE Invoke(c, "/generate", HasPrompt(TRUE), prompt, count, format_type, save_images)
       \* a JSON body that is no object: data.get raises outside the try
       \/ Answer(c, "/generate", "no object", 500)

PromptNeverMissing(keys) == FALSE

\* if 'prompt' not in data
PromptMissing(keys) == "prompt" \notin keys

\* api_server_mode.generate_image, the /generate-image route
GenerateImage(c, inp) ==
    /\ pc[c] = "idle"
    /\ \/ \E keys \in SUBSET BodyKeys, p \in inp.prompts, n \in inp.counts,
            f \in inp.formats, s \in inp.flags :
            LET prompt == Get(keys, "prompt", p, NoneValue)
                count == Min(Max(MinCount, Get(keys, "count", n, 1)), MaxCount)
                fmt == Get(keys, "format", f, "url")
                format_type == IF fmt \notin {"url", "b64_json"} THEN "url" ELSE fmt
                save_images == Get(keys, "save_images", s, TRUE)
            IN  IF PromptMissing(keys)
                THEN Answer(c, "/generate-image", HasPrompt("prompt" \in keys), 400)
                ELSE Invoke(c, "/generate-image", HasPrompt("prompt" \in keys), prompt, count, format_type,
                            save_images)
       \* the request is not JSON, or its body is a JSON array
       \/ Answer(c, "/generate-image", "no object", 400)
       \* the body is JSON null: the membership test raises
       \/ Answer(c, "/generate-image", "no object", 500)

(***************************************************************************)
(* GrokImageGenerator.generate_images.                                     *)
(***************************************************************************)
\* what the remote call can raise
RemoteErrors == {"Connection error.", "Error code: 401"}

\* the status the front end answers once generate_images has returned
StatusAfter(fe) == IF fe \in HttpFrontends THEN 200 ELSE 0

\* the record of the except clause
ErrorResult(prompt, e) ==
    [keys |-> {"success", "error", "original_prompt"}, success |-> FALSE,
     error |-> e, original_prompt |-> prompt, count |-> 0, images |-> <<>>,
     timestamp |-> 0]

ExceptKeepsResult(c, kind, e) ==
    /\ result' = [result EXCEPT ![c].success = FALSE, ![c].error = e,
                                ![c].keys = @ \cup {"success", "error"}]
    /\ fault' = [fault EXCEPT ![c] = kind]
    /\ pc' = [pc EXCEPT ![c] = "done"]
    /\ status' = [status EXCEPT ![c] = StatusAfter(frontend[c])]

\* except Exception as e: ... return error_result
Except(c, kind, e) ==
    /\ result' = [result EXCEPT ![c] = ErrorResult(args[c].prompt, e)]
    /\ fault' = [fault EXCEPT ![c] = kind]
    /\ pc' = [pc EXCEPT ![c] = "done"]
    /\ status' = [status EXCEPT ![c] = StatusAfter(frontend[c])]

NewResultRequestedCount(c, data) ==
    [keys |-> {"success", "original_prompt", "count", "images", "timestamp"},
     success |-> TRUE, error |-> None, original_prompt |-> args[c].prompt,
     count |-> args[c].count, images |-> <<>>, timestamp |-> now]

\* result = {'success': True, ..., 'count': len(response.data), 'images': [], ...}
NewResult(c, data) ==
    [keys |-> {"success", "original_prompt", "count", "images", "timestamp"},
     success |-> TRUE, error |-> None, original_prompt |-> args[c].prompt,
     count |-> Len(data), images |-> <<>>, timestamp |-> now]

\* self.client.images.generate(...) and the result record built from its answer
RemoteGenerate(c, items) ==
    /\ pc[c] = "generate"
    /\ remote' = remote \cup {[call |-> c, prompt |-> args[c].prompt, n |-> args[c].count,
                               response_format |-> args[c].format_type]}
    /\ \/ \E e \in RemoteErrors :
            /\ Except(c, "remote", e)
            /\ UNCHANGED <<now, frontend, given, args, response, saves>>
       \/ \E data \in SeqsUpTo(items, MaxImages) :
            /\ response' = [response EXCEPT ![c] = data]
            /\ result' = [result EXCEPT ![c] = NewResult(c, data)]
            /\ pc' = [pc EXCEPT ![c] = "loop"]
            /\ UNCHANGED <<now, frontend, given, args, status, fault, saves>>

\* the field of the item the requested format saves, None when nothing is saved
Payload(format_type, image_info) ==
    IF format_type = "url" /\ image_info.url # None THEN image_info.url
    ELSE IF format_type = "b64_json" /\ image_info.b64_json # None
         THEN image_info.b64_json
         ELSE None

ImageInfoUrlOnly(i, image_data) ==
    [index |-> i + 1, revised_prompt |-> "revised", url |-> image_data.url,
     b64_json |-> None, saved_path |-> NoPath]

\* image_info = {'index': i + 1, ..., 'saved_path': None}
ImageInfo(i, image_data) ==
    [index |-> i + 1, revised_prompt |-> "revised", url |-> image_data.url,
     b64_json |-> image_data.b64_json, saved_path |-> NoPath]

SavedPathIgnoresFailure(ok, filename) == filename

\* if self.save_image_from_...(..., filename): image_info['saved_path'] = str(filename)
SavedPath(ok, filename) == IF ok THEN filename ELSE NoPath

\* one iteration of "for i, image_data in enumerate(response.data)"
ProcessImage(c, outcomes) ==
    /\ pc[c] = "loop"
    /\ Len(result[c].images) < Len(response[c])
    /\ LET i == Len(result[c].images)
           image_data == response[c][i + 1]
           image_info == ImageInfo(i, image_data)
           filename == GenerateFilename(args[c].prompt, i + 1, <<"jpg">>, now)
       IN  IF ~image_data.has_revised_prompt
           THEN \* image_data.revised_prompt raises AttributeError
                /\ Except(c, "malformed", "no attribute 'revised_prompt'")
                /\ UNCHANGED <<now, frontend, given, args, remote, response, saves>>
           ELSE IF args[c].save_images /\ Payload(args[c].format_type, image_info) # None
           THEN IF args[c].prompt = NoneValue
                THEN \* _generate_filename iterates over None: TypeError
                     /\ Except(c, "type_error", "'NoneType' object is not iterable")
                     /\ UNCHANGED <<now, frontend, given, args, remote, response, saves>>
                ELSE \E ok \in outcomes :
                     \* save_image_from_url / save_image_from_b64 return ok
                     /\ saves' = saves \cup {[path |-> filename, call |-> c,
                                              index |-> i + 1, second |-> now, ok |-> ok]}
                     /\ result' = [result EXCEPT ![c].images =
                            Append(@, [image_info EXCEPT !.saved_path =
                                          SavedPath(ok, filename)])]
                     /\ UNCHANGED <<now, pc, frontend, given, args, remote, response,
                                    status, fault>>
           ELSE /\ result' = [result EXCEPT ![c].images = Append(@, image_info)]
                /\ UNCHANGED <<now, pc, frontend, given, args, remote, response,
                               status, fault, saves>>

\* self._print_results(result); return result, and the front end's answer
ReturnResult(c) ==
    /\ pc[c] = "loop"
    /\ Len(result[c].images) = Len(response[c])
    /\ pc' = [pc EXCEPT ![c] = "done"]
    /\ status' = [status EXCEPT ![c] = StatusAfter(frontend[c])]
    /\ UNCHANGED <<now, frontend, given, args, remote, response, result, fault, saves>>

(***************************************************************************)
(* Specifications.                                                         *)
(***************************************************************************)
\* one request, through any of the four front ends, against any service
Next ==
    \/ Tick
    \/ Interactive(1, TypedInputs)
    \/ CommandLine(1, CliInputs)
    \/ ApiGenerate(1, JsonInputs)
    \/ GenerateImage(1, JsonInputs)
    \/ RemoteGenerate(1, Items)
    \/ ProcessImage(1, BOOLEAN)
    \/ ReturnResult(1)

Spec == Init /\ [][Next]_vars

\* two concurrent /generate-image requests, numbered in the order they arrive,
\* against a service that answers with URLs and a network that delivers them
NextConc ==
    \/ Tick
    \/ \E c \in Calls :
         \/ (GenerateImage(c, ConcInputs) /\ \A d \in Calls : d < c => pc[d] # "idle")
         \/ RemoteGenerate(c, UrlItems)
         \/ ProcessImage(c, {TRUE})
         \/ ReturnResult(c)

SpecConc == Init /\ [][NextConc]_vars

(***************************************************************************)
(* Properties.                                                             *)
(***************************************************************************)
\* generate_images was called for c: its first step is the remote request
Invoked(c) == \E r \in remote : r.call = c

\* the saves of call c
SavesOf(c) == { s \in saves : s.call = c }

\* the parts of a saved path: <dir>/<stem>_<timestamp>_<index>.jpg
TimestampLen == Len(Strftime(0))
TailLen(index) == 1 + TimestampLen + 1 + Len(Format02d(index)) + 2
StemSegment(path, index) == SubSeq(path, Len(OutputDir) + 1, Len(path) - TailLen(index))
TimestampSegment(path, index) ==
    SubSeq(path, Len(path) - TailLen(index) + 2, Len(path) - TailLen(index) + 1 + TimestampLen)
IndexSegment(path, index) ==
    SubSeq(path, Len(path) - 1 - Len(Format02d(index)), Len(path) - 2)

\* C1: a call in which the remote request or a later step failed returns a record
\* with success = false and an error text, and the record has no image
\* descriptors, whatever had been built before the failure; every call that was
\* made returns a record.
C1_FailureReturnsRecord ==
    \A c \in Calls :
        /\ (pc[c] = "done" /\ Invoked(c)) => "success" \in result[c].keys
        /\ (pc[c] = "done" /\ fault[c] # None) =>
              /\ result[c].keys = {"success", "error", "original_prompt"}
              /\ result[c].success = FALSE
              /\ result[c].error # None
              /\ result[c].images = <<>>

\* C1 witness: the second item lacks revised_prompt after the first image had
\* been built and saved
C1_Witness ==
    /\ pc[1] = "done"
    /\ fault[1] = "malformed"
    /\ Len(response[1]) >= 2
    /\ response[1][1].has_revised_prompt
    /\ \E s \in SavesOf(1) : s.index = 1 /\ s.ok

\* C2: every request that reaches the remote service asks for 1 to 10 images.
C2_CountClamped == \A r \in remote : r.n \in MinCount..MaxCount

\* C3: in a successful result, count is the length of images, which is the
\* number of descriptors the service returned.
C3_CountIsLength ==
    \A c \in Calls :
        (pc[c] = "done" /\ result[c].success) =>
            /\ result[c].count = Len(result[c].images)
            /\ Len(result[c].images) = Len(response[c])

\* C3 witness: a successful call asked for a count in [1,10] and got another
\* number of descriptors
C3_Witness ==
    /\ pc[1] = "done"
    /\ result[1].success
    /\ args[1].count \in MinCount..MaxCount
    /\ Len(response[1]) >= 1
    /\ Len(response[1]) # args[1].count

\* C4: a save that fails leaves that image's saved_path unset, a save that
\* succeeds sets it, and a call whose only failures are failed saves goes
\* through all the images and returns success = true.
C4_SaveFailureIsolated ==
    \A s \in saves :
        /\ result[s.call].success =>
              /\ s.index <= Len(result[s.call].images)
              /\ result[s.call].images[s.index].saved_path =
                     (IF s.ok THEN s.path ELSE NoPath)
        /\ ( /\ pc[s.call] = "done"
             /\ \A i \in 1..Len(response[s.call]) :
                    response[s.call][i].has_revised_prompt )
           => /\ result[s.call].success
              /\ Len(result[s.call].images) = Len(response[s.call])

\* C4 witness: the first image's save failed, a later one's succeeded
C4_Witness ==
    /\ pc[1] = "done"
    /\ result[1].success
    /\ \E s1, s2 \in SavesOf(1) : s1.index < s2.index /\ ~s1.ok /\ s2.ok

\* C5: an HTTP request whose JSON body has no prompt is answered 400 and
\* generate_images is not called for it.
C5_MissingPromptIs400 ==
    \A c \in Calls :
        (frontend[c] \in HttpFrontends /\ given[c] = "no prompt") =>
            /\ pc[c] = "done"
            /\ status[c] = 400
            /\ ~Invoked(c)
            /\ args[c] = NoArgs

\* C5 witness: /generate-image answered a body without prompt
C5_Witness ==
    /\ frontend[1] = "/generate-image"
    /\ given[1] = "no prompt"
    /\ status[1] = 400

\* C6: every request that reaches the remote service has a non-empty prompt.
C6_PromptNonEmpty == \A r \in remote : Truthy(r.prompt)

\* C7 (as amended): in a successful result each descriptor carries the url and
\* b64_json of the service's item unchanged, so exactly one of them is set,
\* the one of the requested format, exactly when that is so of the item.
C7_FieldsAreTheServices ==
    \A c \in Calls :
        result[c].success =>
            \A i \in 1..Len(result[c].images) :
                /\ result[c].images[i].url = response[c][i].url
                /\ result[c].images[i].b64_json = response[c][i].b64_json

\* C7 witness: a successful url-format result with a descriptor carrying both
C7_Witness ==
    /\ pc[1] = "done"
    /\ result[1].success
    /\ args[1].format_type = "url"
    /\ \E i \in 1..Len(result[1].images) :
           result[1].images[i].url # None /\ result[1].images[i].b64_json # None

\* C7 as stated: in a successful result every descriptor has exactly one of
\* url / b64_json set, the one of the requested format.
C7_ExactlyOneMatchingFormat ==
    \A c \in Calls :
        (pc[c] = "done" /\ result[c].success) =>
            \A i \in 1..Len(result[c].images) :
                /\ args[c].format_type = "url" =>
                      /\ result[c].images[i].url # None
                      /\ result[c].images[i].b64_json = None
                /\ args[c].format_type = "b64_json" =>
                      /\ result[c].images[i].b64_json # None
                      /\ result[c].images[i].url = None

\* C8: on the HTTP routes the response format sent to the remote service is
\* url or b64_json.
C8_FormatValid ==
    \A r \in remote :
        frontend[r.call] \in HttpFrontends => r.response_format \in {"url", "b64_json"}

\* C9 (as amended): the saved paths of one call share the sanitized-prompt stem
\* and carry the 2-digit image index; each path's timestamp segment is the
\* second at which that image's file name was computed, so two paths of a call
\* have the same segment exactly when both were computed in the same second,
\* and the seconds do not decrease with the index.
C9_TimestampPerImage ==
    \A s \in saves :
        LET segment == TimestampSegment(s.path, s.index)
        IN  /\ StemSegment(s.path, s.index) = SafePrompt(args[s.call].prompt)
            /\ segment = Strftime(s.second)
            /\ IndexSegment(s.path, s.index) = Format02d(s.index)
            /\ \A o \in saves :
                  (o.call = s.call /\ s.index < o.index) =>
                      /\ s.second <= o.second
                      /\ (segment = TimestampSegment(o.path, o.index))
                            <=> (s.second = o.second)

\* C9 witness: two images of one call saved in different seconds
C9_Witness ==
    \E s, o \in SavesOf(1) :
        /\ s.ok /\ o.ok /\ s.index < o.index /\ s.second < o.second
        /\ result[1].images[s.index].saved_path = s.path
        /\ pc[1] = "done"

\* C9 as stated: the saved paths of one call have the same timestamp segment.
C9_SameTimestampSegment ==
    \A s, o \in saves :
        (s.call = o.call /\ s.ok /\ o.ok) =>
            TimestampSegment(s.path, s.index) = TimestampSegment(o.path, o.index)

\* C10 (as amended): two concurrent calls write the same path only if their
\* prompts sanitize to the same stem, the file names were computed in the same
\* second and the image index is the same.
C10_CollisionNeedsSameStem ==
    \A s, o \in saves :
        (s.call # o.call /\ s.ok /\ o.ok /\ s.path = o.path) =>
            /\ SafePrompt(args[s.call].prompt) = SafePrompt(args[o.call].prompt)
            /\ s.second = o.second
            /\ s.index = o.index

\* C10 witness: two calls with different prompts wrote the same path
C10_Witness ==
    \E s, o \in saves :
        /\ s.call # o.call /\ s.ok /\ o.ok /\ s.path = o.path
        /\ args[s.call].prompt # args[o.call].prompt

\* C10 as stated: two concurrent calls write the same path only if they have
\* the same prompt, the same second and the same image index.
C10_CollisionNeedsSamePrompt ==
    \A s, o \in saves :
        (s.call # o.call /\ s.ok /\ o.ok /\ s.path = o.path) =>
            /\ args[s.call].prompt = args[o.call].prompt
            /\ s.second = o.second
            /\ s.index = o.index

====
